---- MODULE Spec2Model ----
(***************************************************************************)
(* InputService (src/src/Engine/Input.ts): press-state tracking, listener  *)
(* dispatch and multi-key shortcut edge detection.                         *)
(*                                                                         *)
(* Strings are sequences of one-character strings, so that toLowerCase,    *)
(* sort and join are computed and not assumed.  Every handler is one       *)
(* action; the callbacks it invokes run inside it, and a callback may call *)
(* back into the service (UnbindShortcut) or throw.  Date.now() timestamps *)
(* are left out of the InputObject: nothing in the service reads them.     *)
(***************************************************************************)
EXTENDS Integers, Sequences, FiniteSets

VARIABLES
    isListening,      \* Input.ts:76
    keysPressed,      \* Input.ts:73  set of lower-cased key codes
    mouseButtonsPressed, \* Input.ts:74  set of button numbers
    lastMousePosition,   \* Input.ts:75  [x, y]
    shortcuts,        \* Input.ts:78  sequence of ShortcutBinding
    activeShortcuts,  \* Input.ts:79  set of binding ids
    InputBegan,       \* Input.ts:69  sequence of callbacks
    InputChanged,     \* Input.ts:70  sequence of callbacks
    InputEnded,       \* Input.ts:71  sequence of callbacks
    calls,            \* callback invocations made by the last operation, in order
    lastOp,           \* the last operation and its argument
    uncaught,         \* TRUE iff the last handler ended by an escaping exception
    tick,             \* parity of the number of operations so far
    lostActive,       \* ids active with their keys held when focus was last lost,
                      \* until their callback is next invoked with Begin
    refired,          \* the ids the last operation took out of lostActive
    animationId,      \* Renderer.ts:8   number | null, as a set of at most one
    pauseTimeoutId,   \* Renderer.ts:11  number | null, as a set of at most one
    onFrameRenderCallback, \* Renderer.ts:10  TRUE iff a callback is set
    animationFrames,  \* handles of the callbacks requestAnimationFrame holds
    timeouts,         \* the timers window.setTimeout holds
    frames,           \* number of frames rendered so far
    rendererOp        \* the last renderer operation, its arguments, and how
                      \* often it called onFrameRenderCallback and resumeCallback

vars == <<isListening, keysPressed, mouseButtonsPressed, lastMousePosition,
          shortcuts, activeShortcuts, InputBegan, InputChanged, InputEnded,
          calls, lastOp, uncaught, tick, lostActive, refired,
          animationId, pauseTimeoutId, onFrameRenderCallback, animationFrames,
          timeouts, frames, rendererOp>>

inputVars == <<isListening, keysPressed, mouseButtonsPressed, lastMousePosition,
               shortcuts, activeShortcuts, InputBegan, InputChanged, InputEnded,
               calls, lastOp, uncaught, tick, lostActive, refired>>

rendererVars == <<animationId, pauseTimeoutId, onFrameRenderCallback,
                  animationFrames, timeouts, frames, rendererOp>>

-----------------------------------------------------------------------------
(* Bounds of the model *)

MaxShortcuts == 2

MaxListeners == 2

-----------------------------------------------------------------------------
(* Strings *)

UpperChars == <<"A","B","C","D","E","F","G","H","I","J","K","L","M",
                "N","O","P","Q","R","S","T","U","V","W","X","Y","Z">>

LowerChars == <<"a","b","c","d","e","f","g","h","i","j","k","l","m",
                "n","o","p","q","r","s","t","u","v","w","x","y","z">>

DigitChars == <<"0","1","2","3","4","5","6","7","8","9">>

\* UTF-16 code-unit order of the characters the model uses
CharOrder == <<"+">> \o DigitChars \o UpperChars \o LowerChars

\* position of each character in CharOrder
OrdOf == [c \in {CharOrder[i] : i \in 1..Len(CharOrder)} |->
            CHOOSE i \in 1..Len(CharOrder) : CharOrder[i] = c]

Ord(c) == IF c \in DOMAIN OrdOf THEN OrdOf[c] ELSE 0

LowerOf == [c \in {UpperChars[i] : i \in 1..26} |->
              LowerChars[CHOOSE i \in 1..26 : UpperChars[i] = c]]

UpperOf == [c \in {LowerChars[i] : i \in 1..26} |->
              UpperChars[CHOOSE i \in 1..26 : LowerChars[i] = c]]

ToLowerChar(c) == IF c \in DOMAIN LowerOf THEN LowerOf[c] ELSE c

ToUpperChar(c) == IF c \in DOMAIN UpperOf THEN UpperOf[c] ELSE c

toLowerCase(str) == [i \in 1..Len(str) |-> ToLowerChar(str[i])]

toUpperCase(str) == [i \in 1..Len(str) |-> ToUpperChar(str[i])]

\* a < b in the order Array.prototype.sort() uses without a comparator
RECURSIVE StrLess(_, _)
StrLess(a, b) ==
    IF Len(b) = 0 THEN FALSE
    ELSE IF Len(a) = 0 THEN TRUE
    ELSE IF Ord(a[1]) # Ord(b[1]) THEN Ord(a[1]) < Ord(b[1])
    ELSE StrLess(Tail(a), Tail(b))

RECURSIVE Insert(_, _)
Insert(sorted, x) ==
    IF Len(sorted) = 0 THEN <<x>>
    ELSE IF StrLess(x, sorted[1]) THEN <<x>> \o sorted
    ELSE <<sorted[1]>> \o Insert(Tail(sorted), x)

RECURSIVE sort(_)
sort(strs) ==
    IF Len(strs) = 0 THEN << >>
    ELSE Insert(sort(SubSeq(strs, 1, Len(strs) - 1)), strs[Len(strs)])

\* Array.from(new Set(xs)): first occurrences, in order
RECURSIVE Dedup(_)
Dedup(xs) ==
    IF Len(xs) = 0 THEN << >>
    ELSE LET front == Dedup(SubSeq(xs, 1, Len(xs) - 1))
             x     == xs[Len(xs)]
         IN IF \E i \in 1..Len(front) : front[i] = x THEN front
            ELSE Append(front, x)

RECURSIVE join(_, _)
join(strs, sep) ==
    IF Len(strs) = 0 THEN << >>
    ELSE IF Len(strs) = 1 THEN strs[1]
    ELSE strs[1] \o sep \o join(Tail(strs), sep)

Range(f) == {f[i] : i \in DOMAIN f}

-----------------------------------------------------------------------------
(* Key codes, event targets, callbacks *)

KeyA == <<"K","e","y","A">>

KeyB == <<"K","e","y","B">>

\* the same keys as a caller may spell them
keyb_lower == <<"k","e","y","b">>

EmptyStr == << >>

\* event.target as isGameProcessedEvent reads it
TargetBody  == [tagName |-> <<"B","O","D","Y">>, isContentEditable |-> FALSE]

TargetInput == [tagName |-> <<"I","N","P","U","T">>, isContentEditable |-> FALSE]

TargetWindow == [tagName |-> EmptyStr, isContentEditable |-> FALSE]

\* raw keyboard events: code, key and target
RawKeyEvents ==
    [code : {KeyA, KeyB}, key : {EmptyStr}, target : {TargetBody, TargetInput}]
    \cup {[code |-> EmptyStr, key |-> <<"b">>, target |-> TargetBody],
          [code |-> EmptyStr, key |-> EmptyStr, target |-> TargetBody]}

FocusEvent == [target |-> TargetWindow]

\* spellings under which a caller may query a key
QueryKeys == {KeyA, KeyB, keyb_lower, <<"K","E","Y","A">>}

\* MouseEvent.button values: main and secondary button
Buttons == {0, 2}

\* raw pointer events: button, clientX, clientY and target
RawMouseEvents ==
    [button : Buttons, clientX : {3}, clientY : {5}, target : {TargetBody}]

RawMoveEvents ==
    {[button |-> 0, clientX |-> p[1], clientY |-> p[2], target |-> TargetBody] :
        p \in {<<3, 5>>, <<5, 0>>, <<0, 3>>}}

\* callback identities; what each does when invoked is in Invoke
NoCallback == "undefined"

\* key lists and option objects handed to BindShortcut / UnbindShortcut
ComboLists == {<<KeyA, KeyB>>, <<keyb_lower, KeyA, KeyB>>}

KeyLists == ComboLists \cup {<<KeyB>>, <<EmptyStr>>}

NoOptions == << >>

OptionInputs == {NoOptions, [fireOnEnd |-> TRUE], [allowWhileTyping |-> TRUE]}

EventNames == {"InputBegan", "InputEnded"}

-----------------------------------------------------------------------------
(* The service as a value: the fields of InputService, plus what a handler   *)
(* carries while it runs (exc: an exception in flight; replaced/oldShortcuts:*)
(* whether this.shortcuts was reassigned, and the array it was before).      *)

State ==
    [isListening |-> isListening, keysPressed |-> keysPressed,
     mouseButtonsPressed |-> mouseButtonsPressed,
     lastMousePosition |-> lastMousePosition,
     shortcuts |-> shortcuts, activeShortcuts |-> activeShortcuts,
     InputBegan |-> InputBegan, InputChanged |-> InputChanged,
     InputEnded |-> InputEnded,
     calls |-> << >>, exc |-> FALSE,
     replaced |-> FALSE, oldShortcuts |-> << >>,
     defaultPrevented |-> FALSE, propagationStopped |-> FALSE]

\* ids invoked with Begin as a shortcut in log
BegunIds(log) ==
    {log[i].input.keyCode : i \in {j \in 1..Len(log) :
        log[j].input.type = "Keyboard" /\ log[j].input.state = "Begin"}}

\* ids of the bindings active with all their keys held
LostAtBlur ==
    {shortcuts[i].id : i \in {j \in 1..Len(shortcuts) :
        /\ shortcuts[j].id \in activeShortcuts
        /\ \A k \in Range(shortcuts[j].keys) : k \in keysPressed}}

Becomes(s, op) ==
    /\ isListening' = s.isListening
    /\ keysPressed' = s.keysPressed
    /\ mouseButtonsPressed' = s.mouseButtonsPressed
    /\ lastMousePosition' = s.lastMousePosition
    /\ shortcuts' = s.shortcuts
    /\ activeShortcuts' = s.activeShortcuts
    /\ InputBegan' = s.InputBegan
    /\ InputChanged' = s.InputChanged
    /\ InputEnded' = s.InputEnded
    /\ calls' = s.calls
    /\ uncaught' = s.exc
    /\ lastOp' = op
    /\ tick' = 1 - tick
    /\ lostActive' = IF op.op = "blur" THEN LostAtBlur ELSE lostActive \ BegunIds(s.calls)
    /\ refired' = IF op.op = "blur" THEN {} ELSE lostActive \cap BegunIds(s.calls)
    /\ UNCHANGED rendererVars

-----------------------------------------------------------------------------
(* Public operations *)

\* mutant: the lower-cased keys are not sorted
normalizeShortcutKeys_NoSort(keys) ==
    LET strings == SelectSeq(keys, LAMBDA k : Len(k) > 0)
        lowered == [i \in 1..Len(strings) |-> toLowerCase(strings[i])]
    IN Dedup(lowered)

normalizeShortcutKeys(keys) ==
    LET strings == SelectSeq(keys, LAMBDA k : Len(k) > 0)
        lowered == [i \in 1..Len(strings) |-> toLowerCase(strings[i])]
    IN Dedup(sort(lowered))

IsKeyPressed(s, keyCode) ==
    IF Len(keyCode) = 0 THEN FALSE
    ELSE toLowerCase(keyCode) \in s.keysPressed

Start(s) ==
    IF s.isListening THEN s
    ELSE [s EXCEPT !.isListening = TRUE]

\* mutant: Stop leaves the held keys in place
Stop_KeepsKeys(s) ==
    IF ~s.isListening THEN s
    ELSE [s EXCEPT !.isListening = FALSE,
                   !.mouseButtonsPressed = {},
                   !.activeShortcuts = {}]

Stop(s) ==
    IF ~s.isListening THEN s
    ELSE [s EXCEPT !.isListening = FALSE,
                   !.keysPressed = {},
                   !.mouseButtonsPressed = {},
                   !.activeShortcuts = {}]

IsMouseButtonPressed(s, button) == button \in s.mouseButtonsPressed

\* a copy of the recorded position
GetMousePosition(s) == [x |-> s.lastMousePosition.x, y |-> s.lastMousePosition.y]

BindAction(s, eventName, callback) ==
    [s EXCEPT ![eventName] = Append(@, callback)]

\* indexOf: the first index holding callback, 0 for -1
indexOf(array, callback) ==
    IF \E i \in 1..Len(array) : array[i] = callback
    THEN CHOOSE i \in 1..Len(array) :
            /\ array[i] = callback
            /\ \A j \in 1..(i - 1) : array[j] # callback
    ELSE 0

\* splice(index, 1)
UnbindAction(s, eventName, callback) ==
    LET index == indexOf(s[eventName], callback)
    IN IF index > 0
       THEN [s EXCEPT ![eventName] =
                SubSeq(@, 1, index - 1) \o SubSeq(@, index + 1, Len(@))]
       ELSE s

Default(options, name) ==
    IF name \in DOMAIN options THEN options[name] ELSE FALSE

\* mutant: a binding whose keys are held is activated when it is bound
BindShortcut_Evaluates(s, keys, callback, options) ==
    LET normalizedKeys == normalizeShortcutKeys(keys)
        binding == [id |-> join(normalizedKeys, <<"+">>),
                    keys |-> normalizedKeys,
                    callback |-> callback,
                    options |-> [allowWhileTyping |-> Default(options, "allowWhileTyping"),
                                 preventDefault |-> Default(options, "preventDefault"),
                                 stopPropagation |-> Default(options, "stopPropagation"),
                                 fireOnEnd |-> Default(options, "fireOnEnd")]]
        bound == [s EXCEPT !.shortcuts = Append(@, binding)]
    IN IF Len(normalizedKeys) = 0 THEN s
       ELSE IF (\A i \in 1..Len(normalizedKeys) : normalizedKeys[i] \in s.keysPressed)
                /\ binding.id \notin s.activeShortcuts
            THEN [bound EXCEPT !.activeShortcuts = @ \cup {binding.id},
                               !.calls = Append(@,
                                   [callback |-> callback,
                                    input |-> [type |-> "Keyboard", state |-> "Begin",
                                               keyCode |-> binding.id],
                                    gpe |-> FALSE])]
            ELSE bound

BindShortcut(s, keys, callback, options) ==
    LET normalizedKeys == normalizeShortcutKeys(keys)
        binding == [id |-> join(normalizedKeys, <<"+">>),
                    keys |-> normalizedKeys,
                    callback |-> callback,
                    options |-> [allowWhileTyping |-> Default(options, "allowWhileTyping"),
                                 preventDefault |-> Default(options, "preventDefault"),
                                 stopPropagation |-> Default(options, "stopPropagation"),
                                 fireOnEnd |-> Default(options, "fireOnEnd")]]
    IN IF Len(normalizedKeys) = 0 THEN s
       ELSE [s EXCEPT !.shortcuts = Append(@, binding)]

\* mutant: the callback argument is ignored, every binding of the id goes
UnbindShortcut_IgnoresCallback(s, keys, callback) ==
    LET normalizedKeys == normalizeShortcutKeys(keys)
        id == join(normalizedKeys, <<"+">>)
    IN IF Len(normalizedKeys) = 0 THEN s
       ELSE [s EXCEPT !.shortcuts = SelectSeq(@, LAMBDA b : b.id # id),
                      !.oldShortcuts = IF s.replaced THEN @ ELSE s.shortcuts,
                      !.replaced = TRUE,
                      !.activeShortcuts = @ \ {id}]

\* mutant: the id stays in the active set
UnbindShortcut_KeepsActive(s, keys, callback) ==
    LET normalizedKeys == normalizeShortcutKeys(keys)
        id == join(normalizedKeys, <<"+">>)
        keep(b) == IF b.id # id THEN TRUE
                   ELSE IF callback = NoCallback THEN FALSE
                   ELSE b.callback # callback
    IN IF Len(normalizedKeys) = 0 THEN s
       ELSE [s EXCEPT !.shortcuts = SelectSeq(@, keep),
                      !.oldShortcuts = IF s.replaced THEN @ ELSE s.shortcuts,
                      !.replaced = TRUE]

UnbindShortcut(s, keys, callback) ==
    LET normalizedKeys == normalizeShortcutKeys(keys)
        id == join(normalizedKeys, <<"+">>)
        keep(b) == IF b.id # id THEN TRUE
                   ELSE IF callback = NoCallback THEN FALSE
                   ELSE b.callback # callback
    IN IF Len(normalizedKeys) = 0 THEN s
       ELSE [s EXCEPT !.shortcuts = SelectSeq(@, keep),
                      !.oldShortcuts = IF s.replaced THEN @ ELSE s.shortcuts,
                      !.replaced = TRUE,
                      !.activeShortcuts = @ \ {id}]

-----------------------------------------------------------------------------
(* Callbacks.  An invocation is recorded in calls; then the callback does   *)
(* what its identity says: onInputThrows throws, cbUnbind unbinds the       *)
(* KeyA+KeyB shortcut from inside the dispatch, cbStop stops the service,   *)
(* onInputOnce unbinds itself from the category it was notified for,        *)
(* onInputBinds binds onInput to that category unless it is bound there,    *)
(* onInputQuery reads the public queries, the others return.                *)

\* the list a listener notified of input is bound to
CategoryOf(input) ==
    CASE input.state = "Begin" -> "InputBegan"
      [] input.state = "Change" -> "InputChanged"
      [] OTHER -> "InputEnded"

\* what the public queries return to a callback running in s
Observed(s) ==
    [keys |-> {k \in QueryKeys : IsKeyPressed(s, k)},
     buttons |-> {b \in Buttons : IsMouseButtonPressed(s, b)},
     position |-> GetMousePosition(s)]

Invoke(s, callback, input, gameProcessedEvent) ==
    LET entry == [callback |-> callback, input |-> input, gpe |-> gameProcessedEvent]
        called == [s EXCEPT !.calls = Append(@,
                      IF callback = "onInputQuery"
                      THEN [callback |-> callback, input |-> input,
                            gpe |-> gameProcessedEvent, observed |-> Observed(s)]
                      ELSE entry)]
    IN CASE callback = "onInputThrows" -> [called EXCEPT !.exc = TRUE]
         [] callback = "cbUnbind" -> UnbindShortcut(called, <<KeyA, KeyB>>, NoCallback)
         [] callback = "cbStop" -> Stop(called)
         [] callback = "onInputOnce" -> UnbindAction(called, CategoryOf(input), callback)
         [] callback = "onInputBinds" ->
                IF indexOf(called[CategoryOf(input)], "onInput") > 0 THEN called
                ELSE BindAction(called, CategoryOf(input), "onInput")
         [] OTHER -> called

-----------------------------------------------------------------------------
(* Internals *)

isGameProcessedEvent(e) ==
    LET tagName == toLowerCase(e.target.tagName)
    IN \/ tagName = <<"i","n","p","u","t">>
       \/ tagName = <<"t","e","x","t","a","r","e","a">>
       \/ tagName = <<"s","e","l","e","c","t">>
       \/ tagName = <<"b","u","t","t","o","n">>
       \/ e.target.isContentEditable

\* mutant: no try/catch around the listener, the exception ends the loop
RECURSIVE fireEventFrom_NoCatch(_, _, _, _, _)
fireEventFrom_NoCatch(s, eventName, input, gameProcessedEvent, i) ==
    IF i > Len(s[eventName]) THEN s
    ELSE LET r == Invoke(s, s[eventName][i], input, gameProcessedEvent)
         IN IF r.exc THEN r
            ELSE fireEventFrom_NoCatch(r, eventName, input, gameProcessedEvent, i + 1)

\* the for-of loop of fireEvent from index i on; the array is read live
RECURSIVE fireEventFrom(_, _, _, _, _)
fireEventFrom(s, eventName, input, gameProcessedEvent, i) ==
    IF i > Len(s[eventName]) THEN s
    ELSE LET r == Invoke(s, s[eventName][i], input, gameProcessedEvent)
             caught == [r EXCEPT !.exc = FALSE]
         IN fireEventFrom(caught, eventName, input, gameProcessedEvent, i + 1)

fireEvent(s, eventName, input, nativeEvent) ==
    fireEventFrom(s, eventName, input, isGameProcessedEvent(nativeEvent), 1)

\* try { shortcut.callback(input, gameProcessedEvent) } catch { console.error }
\* mutant: the callback's error is not caught
CallShortcut_NoCatch(s, shortcut, state, gameProcessedEvent) ==
    LET input == [type |-> "Keyboard", state |-> state, keyCode |-> shortcut.id]
    IN Invoke(s, shortcut.callback, input, gameProcessedEvent)

CallShortcut(s, shortcut, state, gameProcessedEvent) ==
    LET input == [type |-> "Keyboard", state |-> state, keyCode |-> shortcut.id]
        r == Invoke(s, shortcut.callback, input, gameProcessedEvent)
    IN [r EXCEPT !.exc = FALSE]

\* mutant: no edge detection, Begin whenever all keys are held
EvaluateShortcut_NoEdge(s, shortcut, gameProcessedEvent) ==
    LET allPressed == \A i \in 1..Len(shortcut.keys) : shortcut.keys[i] \in s.keysPressed
        isActive == shortcut.id \in s.activeShortcuts
    IN IF gameProcessedEvent /\ ~shortcut.options.allowWhileTyping THEN s
       ELSE IF allPressed THEN
            CallShortcut([s EXCEPT !.activeShortcuts = @ \cup {shortcut.id}],
                         shortcut, "Begin", gameProcessedEvent)
       ELSE IF isActive THEN
            LET off == [s EXCEPT !.activeShortcuts = @ \ {shortcut.id}]
            IN IF shortcut.options.fireOnEnd
               THEN CallShortcut(off, shortcut, "End", gameProcessedEvent)
               ELSE off
       ELSE s

\* mutant: End is invoked on release whatever fireOnEnd says
EvaluateShortcut_EndAlways(s, shortcut, gameProcessedEvent) ==
    LET allPressed == \A i \in 1..Len(shortcut.keys) : shortcut.keys[i] \in s.keysPressed
        isActive == shortcut.id \in s.activeShortcuts
    IN IF gameProcessedEvent /\ ~shortcut.options.allowWhileTyping THEN s
       ELSE IF allPressed /\ ~isActive THEN
            CallShortcut([s EXCEPT !.activeShortcuts = @ \cup {shortcut.id}],
                         shortcut, "Begin", gameProcessedEvent)
       ELSE IF ~allPressed /\ isActive THEN
            CallShortcut([s EXCEPT !.activeShortcuts = @ \ {shortcut.id}],
                         shortcut, "End", gameProcessedEvent)
       ELSE s

\* mutant: a released shortcut is never taken out of the active set
EvaluateShortcut_NeverDeactivates(s, shortcut, gameProcessedEvent) ==
    LET allPressed == \A i \in 1..Len(shortcut.keys) : shortcut.keys[i] \in s.keysPressed
        isActive == shortcut.id \in s.activeShortcuts
    IN IF gameProcessedEvent /\ ~shortcut.options.allowWhileTyping THEN s
       ELSE IF allPressed /\ ~isActive THEN
            CallShortcut([s EXCEPT !.activeShortcuts = @ \cup {shortcut.id}],
                         shortcut, "Begin", gameProcessedEvent)
       ELSE IF ~allPressed /\ isActive /\ shortcut.options.fireOnEnd THEN
            CallShortcut(s, shortcut, "End", gameProcessedEvent)
       ELSE s

\* one iteration of the loop over this.shortcuts
EvaluateShortcut(s, shortcut, gameProcessedEvent) ==
    LET allPressed == \A i \in 1..Len(shortcut.keys) : shortcut.keys[i] \in s.keysPressed
        isActive == shortcut.id \in s.activeShortcuts
    IN IF gameProcessedEvent /\ ~shortcut.options.allowWhileTyping THEN s
       ELSE IF allPressed /\ ~isActive THEN
            CallShortcut([s EXCEPT !.activeShortcuts = @ \cup {shortcut.id},
                                   !.defaultPrevented = @ \/ shortcut.options.preventDefault,
                                   !.propagationStopped = @ \/ shortcut.options.stopPropagation],
                         shortcut, "Begin", gameProcessedEvent)
       ELSE IF ~allPressed /\ isActive THEN
            LET off == [s EXCEPT !.activeShortcuts = @ \ {shortcut.id}]
            IN IF shortcut.options.fireOnEnd
               THEN CallShortcut(off, shortcut, "End", gameProcessedEvent)
               ELSE off
       ELSE s

\* the array the loop iterates: the one this.shortcuts named when the loop
\* began, which UnbindShortcut's reassignment leaves behind
RECURSIVE checkShortcutsFrom(_, _, _)
checkShortcutsFrom(s, gameProcessedEvent, i) ==
    LET array == IF s.replaced THEN s.oldShortcuts ELSE s.shortcuts
    IN IF i > Len(array) THEN s
       ELSE checkShortcutsFrom(EvaluateShortcut(s, array[i], gameProcessedEvent),
                               gameProcessedEvent, i + 1)

checkShortcutsStatus(s, nativeEvent) ==
    IF Len(s.shortcuts) = 0 THEN s
    ELSE checkShortcutsFrom([s EXCEPT !.replaced = FALSE, !.oldShortcuts = << >>],
                            isGameProcessedEvent(nativeEvent), 1)

\* string | null as a set of at most one string
getKeyboardCode(e) ==
    IF Len(e.code) > 0 THEN {e.code}
    ELSE IF Len(e.key) = 0 THEN {}
    ELSE IF Len(e.key) >= 5 /\ SubSeq(e.key, 1, 5) = <<"A","r","r","o","w">> THEN {e.key}
    ELSE IF Len(e.key) = 1 /\ ToLowerChar(e.key[1]) \in Range(LowerChars)
         THEN {<<"K","e","y">> \o toUpperCase(e.key)}
    ELSE IF Len(e.key) = 1 /\ e.key[1] \in Range(DigitChars)
         THEN {<<"D","i","g","i","t">> \o e.key}
    ELSE {e.key}

-----------------------------------------------------------------------------
(* Native event handlers *)

\* mutant: an auto-repeat key-down returns before shortcut evaluation
handleKeyDown_RepeatReturns(s, e) ==
    IF getKeyboardCode(e) = {} THEN s
    ELSE LET code == CHOOSE c \in getKeyboardCode(e) : TRUE
             keyCode == toLowerCase(code)
             added == [s EXCEPT !.keysPressed = @ \cup {keyCode}]
             input == [type |-> "Keyboard", state |-> "Begin", keyCode |-> code]
             fired == fireEvent(added, "InputBegan", input, e)
         IN IF keyCode \in s.keysPressed THEN s
            ELSE IF fired.exc THEN fired ELSE checkShortcutsStatus(fired, e)

\* mutant: shortcuts are evaluated before the listeners are notified
handleKeyDown_ShortcutsFirst(s, e) ==
    IF getKeyboardCode(e) = {} THEN s
    ELSE LET code == CHOOSE c \in getKeyboardCode(e) : TRUE
             keyCode == toLowerCase(code)
             wasAlreadyPressed == keyCode \in s.keysPressed
             added == [s EXCEPT !.keysPressed = @ \cup {keyCode}]
             input == [type |-> "Keyboard", state |-> "Begin", keyCode |-> code]
             checked == checkShortcutsStatus(added, e)
         IN IF ~wasAlreadyPressed
            THEN fireEvent(checked, "InputBegan", input, e)
            ELSE checked

\* mutant: the key is marked held after the listeners were notified
handleKeyDown_AddsAfterNotify(s, e) ==
    IF getKeyboardCode(e) = {} THEN s
    ELSE LET code == CHOOSE c \in getKeyboardCode(e) : TRUE
             keyCode == toLowerCase(code)
             wasAlreadyPressed == keyCode \in s.keysPressed
             input == [type |-> "Keyboard", state |-> "Begin", keyCode |-> code]
             fired == IF ~wasAlreadyPressed
                      THEN fireEvent(s, "InputBegan", input, e)
                      ELSE s
             added == [fired EXCEPT !.keysPressed = @ \cup {keyCode}]
         IN IF fired.exc THEN fired ELSE checkShortcutsStatus(added, e)

handleKeyDown(s, e) ==
    IF getKeyboardCode(e) = {} THEN s
    ELSE LET code == CHOOSE c \in getKeyboardCode(e) : TRUE
             keyCode == toLowerCase(code)
             wasAlreadyPressed == keyCode \in s.keysPressed
             added == [s EXCEPT !.keysPressed = @ \cup {keyCode}]
             input == [type |-> "Keyboard", state |-> "Begin", keyCode |-> code]
             fired == IF ~wasAlreadyPressed
                      THEN fireEvent(added, "InputBegan", input, e)
                      ELSE added
         IN IF fired.exc THEN fired ELSE checkShortcutsStatus(fired, e)

\* mutant: the released key is removed under its original spelling
handleKeyUp_NoLowerCase(s, e) ==
    IF getKeyboardCode(e) = {} THEN s
    ELSE LET code == CHOOSE c \in getKeyboardCode(e) : TRUE
             removed == [s EXCEPT !.keysPressed = @ \ {code}]
             input == [type |-> "Keyboard", state |-> "End", keyCode |-> code]
             fired == fireEvent(removed, "InputEnded", input, e)
         IN IF fired.exc THEN fired ELSE checkShortcutsStatus(fired, e)

\* mutant: a key-up for a key that is not held is dropped
handleKeyUp_IgnoresUnheld(s, e) ==
    IF getKeyboardCode(e) = {} THEN s
    ELSE LET code == CHOOSE c \in getKeyboardCode(e) : TRUE
             keyCode == toLowerCase(code)
             removed == [s EXCEPT !.keysPressed = @ \ {keyCode}]
             input == [type |-> "Keyboard", state |-> "End", keyCode |-> code]
             fired == fireEvent(removed, "InputEnded", input, e)
         IN IF keyCode \notin s.keysPressed THEN s
            ELSE IF fired.exc THEN fired ELSE checkShortcutsStatus(fired, e)

handleKeyUp(s, e) ==
    IF getKeyboardCode(e) = {} THEN s
    ELSE LET code == CHOOSE c \in getKeyboardCode(e) : TRUE
             keyCode == toLowerCase(code)
             removed == [s EXCEPT !.keysPressed = @ \ {keyCode}]
             input == [type |-> "Keyboard", state |-> "End", keyCode |-> code]
             fired == fireEvent(removed, "InputEnded", input, e)
         IN IF fired.exc THEN fired ELSE checkShortcutsStatus(fired, e)

\* mutant: the active set survives the focus loss
handleBlur_KeepsActive(s, e) ==
    LET cleared == [s EXCEPT !.keysPressed = {}, !.mouseButtonsPressed = {}]
    IN fireEvent(cleared, "InputEnded", [type |-> "Focus", state |-> "End"], e)

\* mutant: the notification is delivered before the sets are emptied
handleBlur_NotifiesFirst(s, e) ==
    LET fired == fireEvent(s, "InputEnded", [type |-> "Focus", state |-> "End"], e)
    IN [fired EXCEPT !.keysPressed = {}, !.mouseButtonsPressed = {},
                     !.activeShortcuts = {}]

handleBlur(s, e) ==
    LET cleared == [s EXCEPT !.keysPressed = {}, !.mouseButtonsPressed = {},
                             !.activeShortcuts = {}]
    IN fireEvent(cleared, "InputEnded", [type |-> "Focus", state |-> "End"], e)

handleFocus(s, e) ==
    fireEvent(s, "InputBegan", [type |-> "Focus", state |-> "Begin"], e)

handleMouseDown(s, e) ==
    LET added == [s EXCEPT !.mouseButtonsPressed = @ \cup {e.button}]
        input == [type |-> "MouseButton", state |-> "Begin", mouseButton |-> e.button,
                  position |-> [x |-> e.clientX, y |-> e.clientY]]
    IN fireEvent(added, "InputBegan", input, e)

handleMouseUp(s, e) ==
    LET removed == [s EXCEPT !.mouseButtonsPressed = @ \ {e.button}]
        input == [type |-> "MouseButton", state |-> "End", mouseButton |-> e.button,
                  position |-> [x |-> e.clientX, y |-> e.clientY]]
    IN fireEvent(removed, "InputEnded", input, e)

\* mutant: the delta is taken after the recorded position was updated
handleMouseMove_DeltaAfterUpdate(s, e) ==
    LET moved == [s EXCEPT !.lastMousePosition = [x |-> e.clientX, y |-> e.clientY]]
        delta == [x |-> e.clientX - moved.lastMousePosition.x,
                  y |-> e.clientY - moved.lastMousePosition.y]
        input == [type |-> "MouseMovement", state |-> "Change",
                  position |-> [x |-> e.clientX, y |-> e.clientY],
                  delta |-> delta]
    IN fireEvent(moved, "InputChanged", input, e)

handleMouseMove(s, e) ==
    LET delta == [x |-> e.clientX - s.lastMousePosition.x,
                  y |-> e.clientY - s.lastMousePosition.y]
        moved == [s EXCEPT !.lastMousePosition = [x |-> e.clientX, y |-> e.clientY]]
        input == [type |-> "MouseMovement", state |-> "Change",
                  position |-> [x |-> e.clientX, y |-> e.clientY],
                  delta |-> delta]
    IN fireEvent(moved, "InputChanged", input, e)

-----------------------------------------------------------------------------
(* Actions: the platform delivers raw events while the handlers are         *)
(* registered (between Start and Stop); the application calls the public    *)
(* operations at any time.                                                  *)

Init ==
    /\ isListening = FALSE
    /\ keysPressed = {}
    /\ mouseButtonsPressed = {}
    /\ lastMousePosition = [x |-> 0, y |-> 0]
    /\ shortcuts = << >>
    /\ activeShortcuts = {}
    /\ InputBegan = << >>
    /\ InputChanged = << >>
    /\ InputEnded = << >>
    /\ calls = << >>
    /\ lastOp = [op |-> "new"]
    /\ uncaught = FALSE
    /\ tick = 0
    /\ lostActive = {}
    /\ refired = {}
    /\ animationId = {}
    /\ pauseTimeoutId = {}
    /\ onFrameRenderCallback = FALSE
    /\ animationFrames = {}
    /\ timeouts = {}
    /\ frames = 0
    /\ rendererOp = [op |-> "new", deltas |-> 0, resumes |-> 0]

KeyDown(e) ==
    /\ isListening
    /\ Becomes(handleKeyDown(State, e), [op |-> "keydown", e |-> e])

KeyUp(e) ==
    /\ isListening
    /\ Becomes(handleKeyUp(State, e),
               [op |-> "keyup", e |-> e,
                was |-> \E c \in getKeyboardCode(e) : toLowerCase(c) \in keysPressed])

Blur ==
    /\ isListening
    /\ Becomes(handleBlur(State, FocusEvent), [op |-> "blur"])

Focus ==
    /\ isListening
    /\ Becomes(handleFocus(State, FocusEvent), [op |-> "focus"])

MouseDown(e) ==
    /\ isListening
    /\ Becomes(handleMouseDown(State, e), [op |-> "mousedown", e |-> e])

MouseUp(e) ==
    /\ isListening
    /\ Becomes(handleMouseUp(State, e), [op |-> "mouseup", e |-> e])

MouseMove(e) ==
    /\ isListening
    /\ Becomes(handleMouseMove(State, e),
               [op |-> "mousemove", e |-> e, from |-> lastMousePosition])

CallStart ==
    Becomes(Start(State), [op |-> "Start", was |-> isListening])

CallStop ==
    Becomes(Stop(State), [op |-> "Stop", was |-> isListening])

CallBindAction(eventName, callback) ==
    /\ Len(InputBegan) + Len(InputChanged) + Len(InputEnded) < MaxListeners
    /\ Becomes(BindAction(State, eventName, callback), [op |-> "BindAction"])

CallUnbindAction(eventName, callback) ==
    Becomes(UnbindAction(State, eventName, callback),
            [op |-> "UnbindAction", eventName |-> eventName, callback |-> callback])

CallBindShortcut(keys, callback, options, limit) ==
    /\ Len(shortcuts) < limit
    /\ Becomes(BindShortcut(State, keys, callback, options),
               [op |-> "BindShortcut", keys |-> keys])

CallUnbindShortcut(keys, callback) ==
    Becomes(UnbindShortcut(State, keys, callback),
            [op |-> "UnbindShortcut", keys |-> keys, callback |-> callback,
             before |-> Len(shortcuts)])

-----------------------------------------------------------------------------
(* Spec: keyboard, focus and lifecycle events against shortcut bindings on  *)
(* KeyA+KeyB with returning callbacks, all option choices.                  *)

Next ==
    \/ \E e \in RawKeyEvents : KeyDown(e)
    \/ \E e \in RawKeyEvents : KeyUp(e)
    \/ Blur
    \/ Focus
    \/ CallStart
    \/ CallStop
    \/ \E k \in ComboLists, cb \in {"cb1", "cb2"}, o \in OptionInputs :
          CallBindShortcut(k, cb, o, MaxShortcuts)
    \/ \E k \in ComboLists, cb \in {"cb1", "cb2", NoCallback} :
          CallUnbindShortcut(k, cb)

Spec == Init /\ [][Next]_vars

-----------------------------------------------------------------------------
(* SpecDispatch: the same events against listeners bound to InputBegan and  *)
(* InputEnded, one of which throws, and one shortcut binding.               *)

ListenerNames == {"onInput", "onInputThrows"}

NextDispatch ==
    \/ \E e \in RawKeyEvents : KeyDown(e)
    \/ \E e \in RawKeyEvents : KeyUp(e)
    \/ Blur
    \/ Focus
    \/ CallStart
    \/ \E n \in EventNames, cb \in ListenerNames : CallBindAction(n, cb)
    \/ CallBindShortcut(<<KeyA, KeyB>>, "cb1", NoOptions, MaxShortcuts)
    \/ CallUnbindShortcut(<<KeyA, KeyB>>, NoCallback)

SpecDispatch == Init /\ [][NextDispatch]_vars

(* SpecBindings: BindShortcut and UnbindShortcut alone, over two ids, two   *)
(* callbacks and every spelling of the key lists.                           *)

MaxBindings == 3

NextBindings ==
    \/ \E k \in KeyLists, cb \in {"cb1", "cb2"}, o \in {NoOptions, [fireOnEnd |-> TRUE]} :
          CallBindShortcut(k, cb, o, MaxBindings)
    \/ \E k \in KeyLists, cb \in {"cb1", "cb2", NoCallback} :
          CallUnbindShortcut(k, cb)

SpecBindings == Init /\ [][NextBindings]_vars

(* SpecReentrant: a callback that calls UnbindShortcut for KeyA+KeyB while  *)
(* the service is dispatching, bound as a listener or as a shortcut.        *)

NextReentrant ==
    \/ \E e \in RawKeyEvents : KeyDown(e)
    \/ \E e \in RawKeyEvents : KeyUp(e)
    \/ CallStart
    \/ CallBindAction("InputBegan", "cbUnbind")
    \/ \E k \in {<<KeyA, KeyB>>, <<KeyB>>}, cb \in {"cb1", "cbUnbind"} :
          CallBindShortcut(k, cb, NoOptions, MaxShortcuts)
    \/ \E k \in {<<KeyA, KeyB>>, <<KeyB>>} : CallUnbindShortcut(k, NoCallback)

SpecReentrant == Init /\ [][NextReentrant]_vars

-----------------------------------------------------------------------------
(* Vocabulary of the properties *)

ComboId == <<"k","e","y","a","+","k","e","y","b">>

Pressed(k) == IsKeyPressed(State, k)

Bindings == {shortcuts[i] : i \in 1..Len(shortcuts)}

Held(b) == \A i \in 1..Len(b.keys) : b.keys[i] \in keysPressed

Active(b) == b.id \in activeShortcuts

\* b is the only registered binding with its id
Sole(b) == Cardinality({i \in 1..Len(shortcuts) : shortcuts[i].id = b.id}) = 1

\* the typing guard applies to binding b on native event e
Guarded(e, b) == isGameProcessedEvent(e) /\ ~b.options.allowWhileTyping

\* invocations of b's callback in log with the given phase and b's id as keyCode
ShortcutCalls(log, b, phase) ==
    Cardinality({i \in 1..Len(log) :
        /\ log[i].callback = b.callback
        /\ log[i].input.type = "Keyboard"
        /\ log[i].input.state = phase
        /\ log[i].input.keyCode = b.id})

\* op is a keyboard event the handlers process (its key code is not null)
IsKeyOp(op) == op.op \in {"keydown", "keyup"} /\ getKeyboardCode(op.e) # {}

\* op is a keyboard event of the given kind for key k, compared case-insensitively
IsKeyOpFor(op, kind, k) ==
    /\ op.op = kind
    /\ getKeyboardCode(op.e) # {}
    /\ \A c \in getKeyboardCode(op.e) : toLowerCase(c) = toLowerCase(k)

-----------------------------------------------------------------------------
\* C1: IsKeyPressed(k) is true exactly when the most recent event affecting k
\* was a key-down for k (case-insensitively): nothing is pressed initially, a
\* key-down for k makes it pressed, a key-up for k, a focus loss or a Stop
\* makes it not pressed, and every other operation leaves it as it was.
C1_PressedIffLastEventWasKeyDown ==
    /\ \A k \in QueryKeys : ~Pressed(k)
    /\ [][\A k \in QueryKeys :
            IF IsKeyOpFor(lastOp', "keydown", k) THEN Pressed(k)'
            ELSE IF \/ IsKeyOpFor(lastOp', "keyup", k)
                    \/ lastOp'.op = "blur"
                    \/ lastOp'.op = "Stop" /\ isListening
                 THEN ~Pressed(k)'
            ELSE Pressed(k)' = Pressed(k)]_vars

\* C1 witness: KeyB was released while KeyA stays held; queries in other spellings
C1_Witness ==
    /\ lastOp.op = "keyup" /\ lastOp.e.code = KeyB
    /\ Pressed(<<"K","E","Y","A">>)
    /\ ~Pressed(keyb_lower)
    /\ \E i \in 1..Len(calls) : calls[i].input.state = "End"

-----------------------------------------------------------------------------
\* C2 (as claimed): for a shortcut bound alone on {A,B}, every key event after
\* which A and B have become simultaneously held invokes the callback with
\* Begin exactly once, also when the event or earlier ones had a UI-consumed
\* target, and no key event invokes Begin while both stay held and it has fired.
C2_BeginOncePerJointPress ==
    [][IsKeyOp(lastOp') =>
        \A b \in Bindings : Sole(b) =>
            /\ (~Held(b) /\ Held(b)') => ShortcutCalls(calls', b, "Begin") = 1
            /\ (Held(b) /\ Held(b)' /\ Active(b)) => ShortcutCalls(calls', b, "Begin") = 0]_vars

\* C2 (amended): for a shortcut bound alone on {A,B}, a key event to which the
\* typing guard does not apply invokes Begin exactly once if A and B are both
\* held after it and the shortcut is not active, and not otherwise (so not on
\* auto-repeat while it stays active), and leaves it active iff both are held;
\* a typing-guarded key event invokes nothing and leaves its status unchanged.
C2_BeginOncePerUnguardedJointPress ==
    [][IsKeyOp(lastOp') =>
        \A b \in Bindings : Sole(b) =>
            IF Guarded(lastOp'.e, b)
            THEN /\ ShortcutCalls(calls', b, "Begin") = 0
                 /\ Active(b)' <=> Active(b)
            ELSE /\ ShortcutCalls(calls', b, "Begin") =
                        (IF Held(b)' /\ ~Active(b) THEN 1 ELSE 0)
                 /\ Active(b)' <=> Held(b)']_vars

\* C2 witness: KeyA arrives after KeyB and the sole binding's Begin is invoked once
C2_Witness ==
    /\ lastOp.op = "keydown" /\ lastOp.e.code = KeyA
    /\ \E b \in Bindings :
          /\ Sole(b) /\ b.id = ComboId /\ Held(b) /\ Active(b)
          /\ ShortcutCalls(calls, b, "Begin") = 1

\* C3: while a shortcut bound alone on {A,B} is active with both keys held,
\* the first key-up of A or B (not typing-guarded) invokes End exactly once
\* if fireOnEnd and not at all otherwise, and deactivates it; a key-up while
\* it is not active (the later release of the other key) invokes no End.
C3_EndOnFirstRelease ==
    [][(lastOp'.op = "keyup" /\ IsKeyOp(lastOp')) =>
        \A b \in Bindings : (Sole(b) /\ ~Guarded(lastOp'.e, b)) =>
            /\ (Active(b) /\ Held(b) /\ ~Held(b)') =>
                  /\ ShortcutCalls(calls', b, "End") =
                        (IF b.options.fireOnEnd THEN 1 ELSE 0)
                  /\ ~Active(b)'
            /\ ~Active(b) => ShortcutCalls(calls', b, "End") = 0]_vars

\* C3 witness: KeyB is released first, KeyA is still held, End was invoked once
C3_Witness ==
    /\ lastOp.op = "keyup" /\ lastOp.e.code = KeyB
    /\ keysPressed = {toLowerCase(KeyA)}
    /\ \E b \in Bindings :
          /\ Sole(b) /\ b.options.fireOnEnd /\ ~Active(b)
          /\ ShortcutCalls(calls, b, "End") = 1

\* C5: a focus loss empties held-keys and the active set and invokes no
\* shortcut callback; a focus gain changes neither; and a shortcut that was
\* active with its keys held when focus was lost fires Begin exactly once at
\* the first key-down not typing-guarded after which its keys are all held.
C5_FocusLossResets ==
    [][/\ lastOp'.op = "blur" => (keysPressed' = {} /\ activeShortcuts' = {} /\ calls' = << >>)
       /\ lastOp'.op = "focus" =>
             (keysPressed' = keysPressed /\ activeShortcuts' = activeShortcuts)
       /\ (lastOp'.op = "keydown" /\ IsKeyOp(lastOp')) =>
             \A b \in Bindings :
                (Sole(b) /\ b.id \in lostActive /\ ~Guarded(lastOp'.e, b) /\ Held(b)') =>
                    /\ ShortcutCalls(calls', b, "Begin") = 1
                    /\ b.id \in refired']_vars

\* C5 witness: after the focus loss the shortcut has fired Begin again
C5_Witness ==
    /\ lastOp.op = "keydown"
    /\ \E b \in Bindings :
          Sole(b) /\ b.id \in refired /\ Held(b) /\ ShortcutCalls(calls, b, "Begin") = 1

-----------------------------------------------------------------------------
\* C6 (as claimed): on a keyboard event with a UI-consumed target, every
\* binding with allowWhileTyping = false is skipped: its callback is not
\* invoked and its active status after the event is its status before.
C6_GuardedBindingUntouched ==
    [][(IsKeyOp(lastOp') /\ isGameProcessedEvent(lastOp'.e)) =>
        \A b \in Bindings : ~b.options.allowWhileTyping =>
            /\ (\A o \in Bindings : o.callback = b.callback =>
                                          ~o.options.allowWhileTyping) =>
                   \A i \in 1..Len(calls') : calls'[i].callback # b.callback
            /\ Active(b)' <=> Active(b)]_vars

\* C8 (as claimed): two bindings of the same key set with different callbacks
\* both get Begin on the key event that makes the key set fully held.
C8_BothBindingsFire ==
    [][IsKeyOp(lastOp') =>
        \A b1, b2 \in Bindings :
            (/\ b1.id = b2.id /\ b1.callback # b2.callback
             /\ ~Guarded(lastOp'.e, b1) /\ ~Guarded(lastOp'.e, b2)
             /\ activeShortcuts = {}
             /\ ~Held(b1) /\ Held(b1)') =>
                /\ ShortcutCalls(calls', b1, "Begin") = 1
                /\ ShortcutCalls(calls', b2, "Begin") = 1]_vars

-----------------------------------------------------------------------------
\* callbacks of the listener invocations in log, in order
ListenerCalls(log) ==
    LET ls == SelectSeq(log, LAMBDA c : c.callback \in ListenerNames)
    IN [i \in 1..Len(ls) |-> ls[i].callback]

\* the key of keyboard operation op is held
KeyOfOpHeld(op) == \A c \in getKeyboardCode(op.e) : toLowerCase(c) \in keysPressed

\* C4: a key-down for a key that is already held notifies no InputBegan
\* listener, a key-down for a key not held notifies each of them once, and
\* both run shortcut evaluation: a shortcut bound alone whose keys are all
\* held and which is not active fires Begin once, also on the repeat.
C4_RepeatSuppressedButEvaluated ==
    [][(lastOp'.op = "keydown" /\ IsKeyOp(lastOp')) =>
        /\ ListenerCalls(calls') = (IF KeyOfOpHeld(lastOp') THEN << >> ELSE InputBegan)
        /\ \A b \in Bindings :
              (Sole(b) /\ ~Guarded(lastOp'.e, b) /\ Held(b)' /\ ~Active(b)) =>
                  ShortcutCalls(calls', b, "Begin") = 1]_vars

\* C4 witness: a repeat key-down: the listener bound to InputBegan is not
\* notified, and the shortcut bound since the first key-down fires Begin
C4_Witness ==
    /\ lastOp.op = "keydown"
    /\ Len(InputBegan) > 0
    /\ ListenerCalls(calls) = << >>
    /\ \E b \in Bindings : Sole(b) /\ ShortcutCalls(calls, b, "Begin") = 1

\* C7: a dispatch reaches every listener of its category, in order, also
\* those bound after a listener that throws, and no handler ends by an
\* exception.
C7_ThrowingListenerIsolated ==
    [][/\ uncaught' = FALSE
       /\ lastOp'.op = "focus" => ListenerCalls(calls') = InputBegan
       /\ lastOp'.op = "blur" => ListenerCalls(calls') = InputEnded
       /\ (lastOp'.op = "keyup" /\ IsKeyOp(lastOp')) => ListenerCalls(calls') = InputEnded
       /\ (lastOp'.op = "keydown" /\ IsKeyOp(lastOp') /\ ~KeyOfOpHeld(lastOp')) =>
             ListenerCalls(calls') = InputBegan]_vars

\* C7 witness: the first of two InputBegan listeners throws on a key-down and
\* the second is notified of the same event
C7_Witness ==
    /\ lastOp.op = "keydown"
    /\ InputBegan = <<"onInputThrows", "onInput">>
    /\ Len(calls) >= 2
    /\ calls[1].callback = "onInputThrows"
    /\ calls[2].callback = "onInput"
    /\ calls[2].input = calls[1].input
    /\ ~uncaught

-----------------------------------------------------------------------------
\* the canonical id each key list of the model stands for (none for a list
\* whose only entry is empty)
IdOfKeyList(keys) ==
    IF keys \in ComboLists THEN ComboId
    ELSE IF keys = <<KeyB>> THEN keyb_lower
    ELSE << >>

\* C9: UnbindShortcut(keys) removes every binding whose id is that of keys,
\* UnbindShortcut(keys, cb) those of them whose callback is cb; every other
\* binding stays, in the original order.
C9_UnbindRemovesExactlyTheMatches ==
    [][lastOp'.op = "UnbindShortcut" =>
        LET id == IdOfKeyList(lastOp'.keys)
            cb == lastOp'.callback
            goes(b) == /\ b.id = id
                       /\ cb # NoCallback => b.callback = cb
            kept == {i \in 1..Len(shortcuts) : ~goes(shortcuts[i])}
        IN /\ Len(shortcuts') = Cardinality(kept)
           /\ \A i \in kept :
                 shortcuts'[Cardinality({j \in kept : j <= i})] = shortcuts[i]]_vars

\* C9 witness: of three bindings, UnbindShortcut with a callback and another
\* spelling of the keys removed one; a binding of the same id with the other
\* callback and a binding of another id remain
C9_Witness ==
    /\ lastOp.op = "UnbindShortcut"
    /\ lastOp.keys = <<keyb_lower, KeyA, KeyB>>
    /\ lastOp.callback = "cb1"
    /\ lastOp.before = 3
    /\ Len(shortcuts) = 2
    /\ shortcuts[1].id = keyb_lower
    /\ shortcuts[2].id = ComboId /\ shortcuts[2].callback = "cb2"

\* C10 (as claimed): when a key combination with no registered binding is
\* bound (again) and the next operation is a keyboard event, not typing-
\* guarded, after which all its keys are held and during which nothing is
\* unbound, the new binding's callback is invoked with Begin.
C10_ReboundShortcutFires ==
    [][(lastOp.op = "BindShortcut" /\ IsKeyOp(lastOp') /\ Len(shortcuts) > 0) =>
        LET nb == shortcuts[Len(shortcuts)]
        IN (/\ Sole(nb)
            /\ shortcuts' = shortcuts
            /\ ~Guarded(lastOp'.e, nb)
            /\ Held(nb)') =>
                ShortcutCalls(calls', nb, "Begin") = 1]_vars

-----------------------------------------------------------------------------
\* C11 (as claimed): between raw events, each id in the active set belongs
\* to a registered binding all of whose keys are held.
C11_ActiveImpliesHeld ==
    \A id \in activeShortcuts : \E b \in Bindings : b.id = id /\ Held(b)

\* C11 (amended): an id enters the active set only at a keyboard event that
\* invokes Begin with this id and after which all keys of a binding with
\* this id are held; and after every keyboard event each registered binding
\* the typing guard did not skip on that event is active only if all its
\* keys are held.  (A key-up the typing guard applies to leaves the id in.)
C11_ActiveHeldAtUnguardedEvents ==
    [][/\ \A id \in activeShortcuts' \ activeShortcuts :
             /\ IsKeyOp(lastOp')
             /\ id \in BegunIds(calls')
             /\ \E b \in Bindings : b.id = id /\ Held(b)'
       /\ IsKeyOp(lastOp') =>
             \A b \in Bindings' :
                 ~Guarded(lastOp'.e, b) => (Active(b)' => Held(b)')]_vars

\* C11 witness: a key-down has just put an id into the active set, with the
\* keys of its binding held; a second binding of another spelling shares it
C11_Witness ==
    /\ lastOp.op = "keydown" /\ IsKeyOp(lastOp)
    /\ activeShortcuts = {ComboId}
    /\ ComboId \in BegunIds(calls)
    /\ Len(shortcuts) = 2
    /\ \A b \in Bindings : b.id = ComboId /\ Held(b) /\ ~Guarded(lastOp.e, b)

-----------------------------------------------------------------------------
(* SpecListeners: dispatch to listeners that throw, unbind themselves or    *)
(* bind another listener while the dispatch is running; no shortcuts.       *)

KeyAEvent == [code |-> KeyA, key |-> EmptyStr, target |-> TargetBody]

ReentrantListenerNames == {"onInput", "onInputThrows", "onInputOnce", "onInputBinds"}

NextListeners ==
    \/ KeyDown(KeyAEvent)
    \/ KeyUp(KeyAEvent)
    \/ Blur
    \/ Focus
    \/ CallStart
    \/ \E n \in EventNames, cb \in ReentrantListenerNames : CallBindAction(n, cb)
    \/ \E n \in EventNames, cb \in ReentrantListenerNames : CallUnbindAction(n, cb)

SpecListeners == Init /\ [][NextListeners]_vars

\* the callbacks invoked in log, in order
CallbacksOf(log) == [i \in 1..Len(log) |-> log[i].callback]

\* the listener list the handler of op dispatches to, none for an operation
\* that dispatches nothing
DispatchesTo(op) ==
    CASE op.op = "focus" -> {"InputBegan"}
      [] op.op = "blur" -> {"InputEnded"}
      [] op.op = "keyup" /\ IsKeyOp(op) -> {"InputEnded"}
      [] op.op = "keydown" /\ IsKeyOp(op) /\ ~KeyOfOpHeld(op) -> {"InputBegan"}
      [] OTHER -> {}

\* C12 (as claimed): a dispatch delivers the event to every listener that
\* was registered in the category when it began, each once and in
\* registration order, and the handler returns normally, whatever the
\* listeners do (throw, BindAction or UnbindAction on the same category).
C12_DispatchReachesAllRegistered ==
    [][\A n \in DispatchesTo(lastOp') :
          LET before == State[n]
              registered == {before[i] : i \in 1..Len(before)}
          IN /\ SelectSeq(CallbacksOf(calls'), LAMBDA c : c \in registered) = before
             /\ ~uncaught']_vars

-----------------------------------------------------------------------------
(* SpecLifecycle: Start and Stop, called by the application or (cbStop)     *)
(* from inside a listener or a shortcut callback, around key and pointer    *)
(* events.                                                                  *)

MainButtonEvent == [button |-> 0, clientX |-> 3, clientY |-> 5, target |-> TargetBody]

NextLifecycle ==
    \/ CallStart
    \/ CallStop
    \/ KeyDown(KeyAEvent)
    \/ KeyUp(KeyAEvent)
    \/ MouseDown(MainButtonEvent)
    \/ MouseUp(MainButtonEvent)
    \/ MouseMove(MainButtonEvent)
    \/ \E n \in EventNames : CallBindAction(n, "cbStop")
    \/ \E cb \in {"cb1", "cbStop"} : CallBindShortcut(<<KeyA>>, cb, NoOptions, MaxShortcuts)

SpecLifecycle == Init /\ [][NextLifecycle]_vars

\* the fields of the service
Fields ==
    [isListening |-> isListening, keysPressed |-> keysPressed,
     mouseButtonsPressed |-> mouseButtonsPressed,
     lastMousePosition |-> lastMousePosition,
     shortcuts |-> shortcuts, activeShortcuts |-> activeShortcuts,
     InputBegan |-> InputBegan, InputChanged |-> InputChanged,
     InputEnded |-> InputEnded]

\* the fields of a service constructed, given these listeners and bindings,
\* and started
FreshlyStarted ==
    [isListening |-> TRUE, keysPressed |-> {},
     mouseButtonsPressed |-> {},
     lastMousePosition |-> [x |-> 0, y |-> 0],
     shortcuts |-> shortcuts, activeShortcuts |-> {},
     InputBegan |-> InputBegan, InputChanged |-> InputChanged,
     InputEnded |-> InputEnded]

\* Start while listening and Stop while not listening change nothing; Stop
\* while listening ends listening and empties held-keys, held-buttons and
\* the active set, leaving listeners, bindings and position
StartStopSteps ==
    /\ (lastOp'.op = "Start" /\ isListening) => Fields' = Fields
    /\ (lastOp'.op = "Stop" /\ ~isListening) => Fields' = Fields
    /\ (lastOp'.op = "Stop" /\ isListening) =>
          Fields' = [Fields EXCEPT !.isListening = FALSE,
                                   !.keysPressed = {},
                                   !.mouseButtonsPressed = {},
                                   !.activeShortcuts = {}]
    /\ lastOp'.op \in {"Start", "Stop"} => (calls' = << >> /\ ~uncaught')

\* C13 (as claimed): Start and Stop are idempotent, Stop empties the held
\* and active sets, and after Stop followed by Start the service is in the
\* state of a freshly started one with the same listeners and bindings.
C13_RestartIsFresh ==
    [][/\ StartStopSteps
       /\ (lastOp.op = "Stop" /\ lastOp'.op = "Start") =>
             Fields' = FreshlyStarted]_vars

\* C13 (amended): as claimed, except that the recorded pointer position
\* survives Stop and Start: after Stop followed by Start the service is in
\* the state of a freshly started one with the same listeners, bindings and
\* recorded pointer position.
C13_RestartKeepsPosition ==
    [][/\ StartStopSteps
       /\ (lastOp.op = "Stop" /\ lastOp'.op = "Start") =>
             Fields' = [FreshlyStarted EXCEPT !.lastMousePosition = lastMousePosition]]_vars

\* C13 witness: the service was restarted after the pointer had moved; it has
\* listeners and bindings and nothing is held or active
C13_Witness ==
    /\ lastOp.op = "Start" /\ ~lastOp.was
    /\ lastMousePosition # [x |-> 0, y |-> 0]
    /\ Len(shortcuts) > 0 /\ Len(InputBegan) > 0
    /\ keysPressed = {} /\ mouseButtonsPressed = {} /\ activeShortcuts = {}

-----------------------------------------------------------------------------
\* C14 (as claimed): every raw keyboard event, also one whose code and key
\* are both empty, maps to a non-empty identifier (the code if non-empty,
\* else Key<UPPER> for a letter, Digit<N> for a digit, the key itself for
\* Arrow* values) and is processed: press-state updated, listeners notified.
C14_EveryKeyEventHasAnIdentifier ==
    [][lastOp'.op \in {"keydown", "keyup"} =>
        LET e == lastOp'.e
            ids == getKeyboardCode(e)
        IN /\ ids # {}
           /\ \A c \in ids :
                 /\ Len(c) > 0
                 /\ Len(e.code) > 0 => c = e.code
                 /\ (Len(e.code) = 0 /\ Len(e.key) = 1
                        /\ e.key[1] \in Range(LowerChars) \cup Range(UpperChars)) =>
                       c = <<"K", "e", "y", ToUpperChar(e.key[1])>>
                 /\ (Len(e.code) = 0 /\ Len(e.key) = 1 /\ e.key[1] \in Range(DigitChars)) =>
                       c = <<"D", "i", "g", "i", "t", e.key[1]>>
                 /\ lastOp'.op = "keydown" => toLowerCase(c) \in keysPressed'
                 /\ lastOp'.op = "keyup" =>
                       /\ toLowerCase(c) \notin keysPressed'
                       /\ ListenerCalls(calls') = InputEnded]_vars

-----------------------------------------------------------------------------
(* SpecNormalize: one key list, any sequence of up to MaxKeys spellings, is *)
(* bound; then UnbindShortcut is called with any other such list.           *)

MaxKeys == 3

\* entries of a key list: two keys, one in two letter cases, and the empty string
Spellings == {KeyA, KeyB, keyb_lower, EmptyStr}

SpelledLists == UNION {[1..n -> Spellings] : n \in 1..MaxKeys}

InitNormalize ==
    /\ isListening = FALSE
    /\ keysPressed = {}
    /\ mouseButtonsPressed = {}
    /\ lastMousePosition = [x |-> 0, y |-> 0]
    /\ shortcuts = << >>
    /\ activeShortcuts = {}
    /\ InputBegan = << >>
    /\ InputChanged = << >>
    /\ InputEnded = << >>
    /\ calls = << >>
    /\ lastOp \in [op : {"new"}, keys : SpelledLists]
    /\ uncaught = FALSE
    /\ tick = 0
    /\ lostActive = {}
    /\ refired = {}
    /\ animationId = {}
    /\ pauseTimeoutId = {}
    /\ onFrameRenderCallback = FALSE
    /\ animationFrames = {}
    /\ timeouts = {}
    /\ frames = 0
    /\ rendererOp = [op |-> "new", deltas |-> 0, resumes |-> 0]

NextNormalize ==
    \/ /\ lastOp.op = "new"
       /\ CallBindShortcut(lastOp.keys, "cb1", NoOptions, MaxShortcuts)
    \/ /\ lastOp.op = "BindShortcut"
       /\ \E k \in SpelledLists : CallUnbindShortcut(k, NoCallback)

SpecNormalize == InitNormalize /\ [][NextNormalize]_vars

\* the lower-cased set of the non-empty entries of a key list
LowerSet(keys) == {toLowerCase(keys[i]) : i \in {j \in 1..Len(keys) : Len(keys[j]) > 0}}

\* the sorted set joined by "+", for the sets the spellings can make
CanonicalId(set) ==
    CASE set = {<<"k","e","y","a">>} -> <<"k","e","y","a">>
      [] set = {<<"k","e","y","b">>} -> <<"k","e","y","b">>
      [] set = {<<"k","e","y","a">>, <<"k","e","y","b">>} -> ComboId

\* C15: the id of a binding is the sorted lower-cased set of the non-empty
\* entries of its key list joined by "+", whatever the order, letter case
\* and repetitions of the list, and a list with no such entry binds nothing;
\* UnbindShortcut with a key list removes the binding iff the two lists
\* have the same lower-cased set of non-empty entries.
C15_IdIsCanonical ==
    [][/\ lastOp'.op = "BindShortcut" =>
             IF LowerSet(lastOp'.keys) = {} THEN shortcuts' = shortcuts
             ELSE /\ Len(shortcuts') = Len(shortcuts) + 1
                  /\ shortcuts'[Len(shortcuts')].id = CanonicalId(LowerSet(lastOp'.keys))
                  /\ Range(shortcuts'[Len(shortcuts')].keys) = LowerSet(lastOp'.keys)
       /\ (lastOp.op = "BindShortcut" /\ lastOp'.op = "UnbindShortcut") =>
             IF LowerSet(lastOp'.keys) = LowerSet(lastOp.keys)
             THEN shortcuts' = << >>
             ELSE shortcuts' = shortcuts]_vars

\* C15 witness: a binding was removed by UnbindShortcut called with its keys
\* in another order, in another letter case and with a repetition
C15_Witness ==
    /\ lastOp.op = "UnbindShortcut"
    /\ lastOp.keys = <<KeyB, KeyA, keyb_lower>>
    /\ lastOp.before = 1
    /\ shortcuts = << >>

-----------------------------------------------------------------------------
\* C16 (as claimed): BindShortcut with a key list whose normalized set is
\* empty, and UnbindShortcut with a combination, or combination and
\* callback, that matches no registered binding, raise nothing and change
\* neither the binding list, nor the active set, nor the held state.
C16_MisuseChangesNothing ==
    [][LET matches(b) == /\ b.id = IdOfKeyList(lastOp'.keys)
                         /\ lastOp'.callback # NoCallback => b.callback = lastOp'.callback
       IN (\/ lastOp'.op = "BindShortcut" /\ LowerSet(lastOp'.keys) = {}
           \/ lastOp'.op = "UnbindShortcut" /\ ~\E b \in Bindings : matches(b)) =>
              (Fields' = Fields /\ calls' = << >> /\ ~uncaught')]_vars

-----------------------------------------------------------------------------
(* SpecPointer: pointer buttons and moves, a key and a one-key shortcut,    *)
(* focus loss and gain, with listeners that read the public queries.        *)

NextPointer ==
    \/ CallStart
    \/ \E e \in RawMouseEvents : MouseDown(e)
    \/ \E e \in RawMouseEvents : MouseUp(e)
    \/ \E e \in RawMoveEvents : MouseMove(e)
    \/ KeyDown(KeyAEvent)
    \/ KeyUp(KeyAEvent)
    \/ Blur
    \/ Focus
    \/ \E n \in {"InputChanged", "InputEnded"} : CallBindAction(n, "onInputQuery")
    \/ CallBindShortcut(<<KeyA>>, "cb1", NoOptions, MaxShortcuts)

SpecPointer == Init /\ [][NextPointer]_vars

\* C17: a focus loss empties held-keys, held-buttons and the active set and
\* then notifies each InputEnded listener once, in order, of one Focus/End
\* input; a listener that queries IsKeyPressed or IsMouseButtonPressed
\* during the notification gets false for every identifier.
C17_FocusLossClearsBeforeNotifying ==
    [][lastOp'.op = "blur" =>
        /\ keysPressed' = {} /\ mouseButtonsPressed' = {} /\ activeShortcuts' = {}
        /\ CallbacksOf(calls') = InputEnded
        /\ \A i \in 1..Len(calls') :
              /\ calls'[i].input = [type |-> "Focus", state |-> "End"]
              /\ calls'[i].callback = "onInputQuery" =>
                    /\ calls'[i].observed.keys = {}
                    /\ calls'[i].observed.buttons = {}]_vars

\* C17 witness: focus was lost while a shortcut was active with its key
\* held; two listeners were notified and found nothing pressed
C17_Witness ==
    /\ lastOp.op = "blur"
    /\ lostActive # {}
    /\ Len(calls) = 2
    /\ \A i \in 1..2 : calls[i].observed.keys = {} /\ calls[i].observed.buttons = {}
    /\ keysPressed = {} /\ mouseButtonsPressed = {} /\ activeShortcuts = {}

\* C18: the recorded position is (0,0) initially; a pointer move records the
\* new position and notifies each InputChanged listener once, in order, of
\* one MouseMovement/Change input with the new position and the delta new
\* minus previously recorded; GetMousePosition inside the listener returns
\* the new position.
C18_MoveReportsDelta ==
    /\ lastMousePosition = [x |-> 0, y |-> 0]
    /\ [][lastOp'.op = "mousemove" =>
            LET new == [x |-> lastOp'.e.clientX, y |-> lastOp'.e.clientY]
            IN /\ lastMousePosition' = new
               /\ CallbacksOf(calls') = InputChanged
               /\ \A i \in 1..Len(calls') :
                     /\ calls'[i].input =
                           [type |-> "MouseMovement", state |-> "Change",
                            position |-> new,
                            delta |-> [x |-> new.x - lastMousePosition.x,
                                       y |-> new.y - lastMousePosition.y]]
                     /\ calls'[i].callback = "onInputQuery" =>
                           calls'[i].observed.position = new]_vars

\* C18 witness: a move from (3,5) to (0,3) gave the listener the delta
\* (-3,-2), and the listener read (0,3) as the position
C18_Witness ==
    /\ lastOp.op = "mousemove"
    /\ lastOp.from = [x |-> 3, y |-> 5]
    /\ lastMousePosition = [x |-> 0, y |-> 3]
    /\ Len(calls) = 1
    /\ calls[1].input.delta = [x |-> 0 - 3, y |-> 0 - 2]
    /\ calls[1].observed.position = [x |-> 0, y |-> 3]

-----------------------------------------------------------------------------
\* C19: a key-up for a key that is not held leaves held-keys unchanged and
\* notifies each InputEnded listener once of the Keyboard/End input; the
\* shortcut evaluation after it does what the unchanged held set implies and
\* no more: a binding (bound alone) the typing guard skips is untouched, any
\* other is active afterwards iff its keys are held, invoked with Begin only
\* if they are held and it was not active, and with End only if they are not
\* held, it was active and has fireOnEnd; so a binding whose status agrees
\* with the held set keeps its status and is not invoked.
C19_KeyUpOfUnheldKeyIsHarmless ==
    [][(lastOp'.op = "keyup" /\ IsKeyOp(lastOp') /\ ~KeyOfOpHeld(lastOp')) =>
        /\ keysPressed' = keysPressed
        /\ ListenerCalls(calls') = InputEnded
        /\ \A i \in 1..Len(calls') :
              calls'[i].callback \in ListenerNames =>
                 /\ calls'[i].input.type = "Keyboard"
                 /\ calls'[i].input.state = "End"
                 /\ calls'[i].input.keyCode \in getKeyboardCode(lastOp'.e)
        /\ \A b \in Bindings : Sole(b) =>
              IF Guarded(lastOp'.e, b)
              THEN /\ Active(b)' <=> Active(b)
                   /\ ShortcutCalls(calls', b, "Begin") = 0
                   /\ ShortcutCalls(calls', b, "End") = 0
              ELSE /\ Active(b)' <=> Held(b)
                   /\ ShortcutCalls(calls', b, "Begin") =
                         (IF Held(b) /\ ~Active(b) THEN 1 ELSE 0)
                   /\ ShortcutCalls(calls', b, "End") =
                         (IF ~Held(b) /\ Active(b) /\ b.options.fireOnEnd THEN 1 ELSE 0)]_vars

\* C19 witness: a key-up arrived for KeyA, which was not held, while KeyB is
\* held; the InputEnded listener was notified, the binding was not invoked
C19_Witness ==
    /\ lastOp.op = "keyup" /\ ~lastOp.was
    /\ lastOp.e.code = KeyA
    /\ keysPressed = {keyb_lower}
    /\ Len(InputEnded) = 1
    /\ Len(calls) = 1 /\ calls[1].input.state = "End"
    /\ \E b \in Bindings : Sole(b) /\ ~Active(b)

-----------------------------------------------------------------------------
\* the entry of a call log is a shortcut invocation: its keyCode is a binding id
IsShortcutCall(c) ==
    /\ c.input.type = "Keyboard"
    /\ \E i \in 1..Len(shortcuts) : shortcuts[i].id = c.input.keyCode

\* nothing is held or active, and every query returns false
NothingHeld ==
    /\ keysPressed = {} /\ mouseButtonsPressed = {} /\ activeShortcuts = {}
    /\ \A k \in QueryKeys : ~IsKeyPressed(State, k)
    /\ \A b \in Buttons : ~IsMouseButtonPressed(State, b)

\* C20: whenever the service is not listening, held-keys, held-buttons and
\* the active set are empty and the queries return false; no operation
\* invokes a shortcut callback while it is not listening, nor does a handler
\* invoke one after a callback has called Stop in the middle of it.
C20_NotListeningMeansNothingHeld ==
    /\ ~isListening => NothingHeld
    /\ [][/\ ~isListening' => NothingHeld'
          /\ ~isListening => \A i \in 1..Len(calls') : ~IsShortcutCall(calls'[i])
          /\ \A i \in 1..Len(calls') : calls'[i].callback = "cbStop" =>
                \A j \in (i + 1)..Len(calls') : ~IsShortcutCall(calls'[j])]_vars

\* C20 witness: during a key-down the first shortcut callback called Stop;
\* a second binding on the same key was still to be evaluated; afterwards
\* the service is not listening and nothing is held or active
C20_Witness ==
    /\ lastOp.op = "keydown"
    /\ ~isListening
    /\ Len(shortcuts) = 2
    /\ shortcuts[1].callback = "cbStop" /\ shortcuts[2].callback = "cb1"
    /\ \E i \in 1..Len(calls) : calls[i].callback = "cbStop" /\ IsShortcutCall(calls[i])
    /\ NothingHeld

-----------------------------------------------------------------------------
(* SpecOrder: key events against listeners that read the press state and    *)
(* shortcuts on KeyB and on KeyA+KeyB that can fire on one event, one of    *)
(* them with a callback that throws.                                        *)

KeyBEvent == [code |-> KeyB, key |-> EmptyStr, target |-> TargetBody]

NextOrder ==
    \/ \E e \in {KeyAEvent, KeyBEvent} : KeyDown(e)
    \/ \E e \in {KeyAEvent, KeyBEvent} : KeyUp(e)
    \/ CallStart
    \/ \E n \in EventNames : CallBindAction(n, "onInputQuery")
    \/ CallBindShortcut(<<KeyB>>, "cb1", [fireOnEnd |-> TRUE], MaxShortcuts)
    \/ CallBindShortcut(<<KeyB>>, "onInputThrows", [fireOnEnd |-> TRUE], MaxShortcuts)
    \/ CallBindShortcut(<<KeyA, KeyB>>, "cb2", [fireOnEnd |-> TRUE], MaxShortcuts)

SpecOrder == Init /\ [][NextOrder]_vars

\* the first index of shortcuts holding a binding with this id
FirstBindingOf(id) ==
    CHOOSE i \in 1..Len(shortcuts) :
        /\ shortcuts[i].id = id
        /\ \A j \in 1..(i - 1) : shortcuts[j].id # id

\* C21: within a keyboard event the listeners are invoked after the press
\* state was updated (a first key-down: the key reads as held; a key-up: as
\* not held), all of them, in order; every shortcut callback is invoked
\* after every listener; and the shortcut callbacks are invoked in the
\* registration order of their bindings.
C21_ListenersThenShortcutsInOrder ==
    [][IsKeyOp(lastOp') =>
        LET log == calls'
            isListener(i) == log[i].callback = "onInputQuery"
            code == CHOOSE c \in getKeyboardCode(lastOp'.e) : TRUE
            listeners == IF lastOp'.op = "keyup" THEN InputEnded
                         ELSE IF KeyOfOpHeld(lastOp') THEN << >>
                         ELSE InputBegan
        IN /\ \A i \in 1..Len(log) :
                 IF i <= Len(listeners)
                 THEN /\ isListener(i)
                      /\ log[i].input.keyCode = code
                      /\ (code \in log[i].observed.keys) <=> (lastOp'.op = "keydown")
                 ELSE /\ ~isListener(i)
                      /\ IsShortcutCall(log[i])
           /\ Len(log) >= Len(listeners)
           /\ \A i, j \in (Len(listeners) + 1)..Len(log) :
                 i < j => FirstBindingOf(log[i].input.keyCode)
                             < FirstBindingOf(log[j].input.keyCode)]_vars

\* C21 witness: the key-down of KeyB, with KeyA held, notified the listener,
\* which read KeyB as held, then invoked the KeyB binding, bound first, then
\* the KeyA+KeyB binding
C21_Witness ==
    /\ lastOp.op = "keydown" /\ lastOp.e.code = KeyB
    /\ Len(shortcuts) = 2
    /\ shortcuts[1].id = keyb_lower /\ shortcuts[2].id = ComboId
    /\ Len(calls) = 3
    /\ calls[1].callback = "onInputQuery" /\ KeyB \in calls[1].observed.keys
    /\ calls[2].callback = "cb1" /\ calls[2].input.keyCode = keyb_lower
    /\ calls[3].callback = "cb2" /\ calls[3].input.keyCode = ComboId

\* C22: a shortcut callback that throws is isolated. On every keyboard
\* event no error leaves the handler; after it every binding, whether
\* registered before or after a throwing one, is active exactly when its
\* keys are held; every id that became active got exactly one Begin and
\* every id that ceased to be active exactly one End (fireOnEnd bindings),
\* delivered to its first binding; and an id that stayed active, a throwing
\* binding's included, got no callback.
C22_ThrowingShortcutIsolated ==
    [][IsKeyOp(lastOp') =>
        LET log == calls'
            callsFor(id, phase) ==
                {i \in 1..Len(log) : /\ IsShortcutCall(log[i])
                                     /\ log[i].input.keyCode = id
                                     /\ log[i].input.state = phase}
        IN /\ uncaught' = FALSE
           /\ \A b \in Bindings :
                 (b.id \in activeShortcuts')
                     <=> (\A i \in 1..Len(b.keys) : b.keys[i] \in keysPressed')
           /\ \A b \in Bindings :
                 /\ Cardinality(callsFor(b.id, "Begin"))
                       = IF b.id \in activeShortcuts' \ activeShortcuts THEN 1 ELSE 0
                 /\ Cardinality(callsFor(b.id, "End"))
                       = IF b.id \in activeShortcuts \ activeShortcuts' THEN 1 ELSE 0
                 /\ \A i \in callsFor(b.id, "Begin") \cup callsFor(b.id, "End") :
                       log[i].callback = shortcuts[FirstBindingOf(b.id)].callback]_vars

\* C22 witness: the key-down of KeyB, with KeyA held, invoked the throwing
\* callback of the KeyB binding and then the callback of the KeyA+KeyB
\* binding registered after it; both are active and no error escaped
C22_Witness ==
    /\ lastOp.op = "keydown" /\ lastOp.e.code = KeyB
    /\ Len(shortcuts) = 2
    /\ shortcuts[1].callback = "onInputThrows" /\ shortcuts[2].callback = "cb2"
    /\ \E n \in 1..(Len(calls) - 1) :
          /\ calls[n].callback = "onInputThrows" /\ calls[n].input.state = "Begin"
          /\ calls[n + 1].callback = "cb2" /\ calls[n + 1].input.state = "Begin"
    /\ activeShortcuts = {keyb_lower, ComboId}
    /\ ~uncaught

\* occurrences of callback cb in a listener list or a call log
Occurrences(list, cb) == Cardinality({i \in 1..Len(list) : list[i] = cb})

\* the effect of UnbindAction(eventName, callback) between events: the first
\* occurrence leaves that list, the other entries keep their order, and
\* nothing else changes; without an occurrence nothing changes at all
UnbindActionRemovesFirst ==
    lastOp'.op = "UnbindAction" =>
        LET n == lastOp'.eventName
            cb == lastOp'.callback
            list == State[n]
            first == {i \in 1..Len(list) :
                         list[i] = cb /\ \A j \in 1..(i - 1) : list[j] # cb}
        IN /\ \A m \in {"InputBegan", "InputChanged", "InputEnded"} \ {n} :
                 State'[m] = State[m]
           /\ calls' = << >>
           /\ <<isListening, keysPressed, mouseButtonsPressed, lastMousePosition,
                shortcuts, activeShortcuts>>'
                 = <<isListening, keysPressed, mouseButtonsPressed,
                     lastMousePosition, shortcuts, activeShortcuts>>
           /\ IF first = {} THEN State'[n] = list
              ELSE \E i \in first :
                      /\ Len(State'[n]) = Len(list) - 1
                      /\ \A j \in 1..(Len(list) - 1) :
                            State'[n][j] = IF j < i THEN list[j] ELSE list[j + 1]

\* C23 (as claimed): UnbindAction removes the first occurrence only and keeps
\* the order of the rest, and on every keyboard event that is dispatched to a
\* category each callback bound to it is invoked as many times as it is
\* bound.
C23_BoundNTimesInvokedNTimes ==
    [][/\ UnbindActionRemovesFirst
       /\ \A n \in DispatchesTo(lastOp') :
             IsKeyOp(lastOp') =>
                \A cb \in Range(State[n]) :
                    Occurrences(CallbacksOf(calls'), cb) = Occurrences(State[n], cb)]_vars

-----------------------------------------------------------------------------
(* RendererClass (src/src/Engine/Renderer.ts): the render loop and pause.   *)
(* The browser holds the callbacks given to requestAnimationFrame and       *)
(* window.setTimeout and runs each of them once unless it was cancelled.    *)
(* The time stamps (lastTime, deltaTime) and the drawing are left out: no   *)
(* branch of the loop reads them.                                           *)

MaxFrames == 3

Durations == {0, 1000}

Renderer ==
    [animationId |-> animationId, pauseTimeoutId |-> pauseTimeoutId,
     onFrameRenderCallback |-> onFrameRenderCallback,
     animationFrames |-> animationFrames, timeouts |-> timeouts,
     frames |-> frames, deltas |-> 0, resumes |-> 0]

RendererBecomes(r, op) ==
    /\ animationId' = r.animationId
    /\ pauseTimeoutId' = r.pauseTimeoutId
    /\ onFrameRenderCallback' = r.onFrameRenderCallback
    /\ animationFrames' = r.animationFrames
    /\ timeouts' = r.timeouts
    /\ frames' = r.frames
    /\ rendererOp' = [op EXCEPT !.deltas = r.deltas, !.resumes = r.resumes]
    /\ UNCHANGED inputVars

\* a handle the browser does not hold at present
FreshHandle(held) == CHOOSE h \in 1..(Cardinality(held) + 1) : h \notin held

setOnFrameRender(r) == [r EXCEPT !.onFrameRenderCallback = TRUE]

isRunning(r) == r.animationId # {}

renderLoop(r) ==
    LET rendered == [r EXCEPT !.frames = @ + 1,
                              !.deltas =
                                  IF r.onFrameRenderCallback THEN @ + 1 ELSE @]
        id == FreshHandle(rendered.animationFrames)
    IN [rendered EXCEPT !.animationId = {id}, !.animationFrames = @ \cup {id}]

startLoop(r) == IF isRunning(r) THEN r ELSE renderLoop(r)

stopLoop(r) ==
    LET cancelled == IF r.animationId # {}
                     THEN [r EXCEPT !.animationFrames = @ \ r.animationId,
                                    !.animationId = {}]
                     ELSE r
    IN IF cancelled.pauseTimeoutId # {}
       THEN [cancelled EXCEPT
                !.timeouts = {tm \in @ : tm.id \notin cancelled.pauseTimeoutId},
                !.pauseTimeoutId = {}]
       ELSE cancelled

pause(r, durationMs, resumeCallback) ==
    IF ~isRunning(r) THEN r
    ELSE LET stopped == stopLoop(r)
             hooked == IF resumeCallback THEN [stopped EXCEPT !.resumes = @ + 1]
                       ELSE stopped
             cleared == IF hooked.pauseTimeoutId # {}
                        THEN [hooked EXCEPT !.timeouts =
                                 {tm \in @ : tm.id \notin hooked.pauseTimeoutId}]
                        ELSE hooked
             id == FreshHandle({tm.id : tm \in cleared.timeouts})
         IN [cleared EXCEPT !.pauseTimeoutId = {id},
                            !.timeouts = @ \cup {[id |-> id, durationMs |-> durationMs]}]

\* the callback pause gave to setTimeout
pauseTimeout(r, tm) == [r EXCEPT !.pauseTimeoutId = {}, !.timeouts = @ \ {tm}]

CallSetOnFrameRender ==
    RendererBecomes(setOnFrameRender(Renderer), [op |-> "setOnFrameRender", deltas |-> 0, resumes |-> 0])

CallStartLoop ==
    /\ frames < MaxFrames
    /\ RendererBecomes(startLoop(Renderer),
                       [op |-> "startLoop", was |-> isRunning(Renderer),
                        deltas |-> 0, resumes |-> 0])

CallStopLoop == RendererBecomes(stopLoop(Renderer), [op |-> "stopLoop", deltas |-> 0, resumes |-> 0])

CallPause(durationMs, resumeCallback) ==
    RendererBecomes(pause(Renderer, durationMs, resumeCallback),
                    [op |-> "pause", durationMs |-> durationMs,
                     resumeCallback |-> resumeCallback, was |-> isRunning(Renderer),
                     deltas |-> 0, resumes |-> 0])

\* the browser runs the callback of a pending animation frame
AnimationFrame ==
    /\ frames < MaxFrames
    /\ \E h \in animationFrames :
          RendererBecomes(renderLoop([Renderer EXCEPT !.animationFrames = @ \ {h}]),
                          [op |-> "frame", deltas |-> 0, resumes |-> 0])

\* the browser runs the callback of a pending timer
TimeoutFires ==
    \E tm \in timeouts :
        RendererBecomes(pauseTimeout(Renderer, tm),
                        [op |-> "timeout", durationMs |-> tm.durationMs,
                         deltas |-> 0, resumes |-> 0])

NextRenderer ==
    \/ CallSetOnFrameRender
    \/ CallStartLoop
    \/ CallStopLoop
    \/ \E d \in Durations, cb \in BOOLEAN : CallPause(d, cb)
    \/ AnimationFrame
    \/ TimeoutFires

\* the browser runs the callbacks it holds; the application need not call
SpecRenderer ==
    Init /\ [][NextRenderer]_vars /\ WF_vars(AnimationFrame) /\ WF_vars(TimeoutFires)

\* C24 (as claimed): after pause was called on a running loop, a frame is
\* rendered again, unless the application itself called startLoop or
\* stopLoop in between.  (Stated for the pauses made before the frame bound
\* is reached, so that a further frame is possible.)
C24_PauseResumesLoop ==
    (rendererOp.op = "pause" /\ rendererOp.was /\ frames < MaxFrames)
        ~> (rendererOp.op \in {"frame", "startLoop", "stopLoop"})

\* C25 (as claimed): every id in the active set is the id of a registered
\* binding, also after UnbindShortcut was called from inside a callback.
C25_ActiveIdsAreRegistered ==
    \A id \in activeShortcuts : \E b \in Bindings : b.id = id

\* C26: BindShortcut evaluates nothing: it invokes no callback and leaves
\* the active set and the held keys as they were, also when the keys of the
\* new binding are all held.  A Begin is delivered only by a keyboard event
\* (first key-down, auto-repeat key-down, or a key-up) after which the keys
\* of a binding with that id and callback are all held, whose id was not
\* active before it and which the typing guard does not exclude; and such an
\* event does deliver it to a binding that is the only one with its id.
C26_BindShortcutDoesNotEvaluate ==
    [][/\ lastOp'.op = "BindShortcut" =>
             /\ calls' = << >>
             /\ activeShortcuts' = activeShortcuts
             /\ keysPressed' = keysPressed
       /\ \A i \in 1..Len(calls') :
             (calls'[i].input.type = "Keyboard" /\ calls'[i].input.state = "Begin") =>
                 /\ IsKeyOp(lastOp')
                 /\ calls'[i].input.keyCode \notin activeShortcuts
                 /\ \E b \in Bindings :
                       /\ b.id = calls'[i].input.keyCode
                       /\ b.callback = calls'[i].callback
                       /\ Held(b)'
                       /\ ~Guarded(lastOp'.e, b)
       /\ IsKeyOp(lastOp') =>
             \A b \in Bindings :
                 (Sole(b) /\ Held(b)' /\ ~Active(b) /\ ~Guarded(lastOp'.e, b)) =>
                     ShortcutCalls(calls', b, "Begin") = 1]_vars

\* C26 witness: a binding was just added while all its keys were held; no
\* callback was invoked and its id is not active
C26_Witness ==
    /\ lastOp.op = "BindShortcut"
    /\ Len(shortcuts) > 0
    /\ Held(shortcuts[Len(shortcuts)])
    /\ Len(shortcuts[Len(shortcuts)].keys) = 2
    /\ ~Active(shortcuts[Len(shortcuts)])
    /\ calls = << >>

\* C27: focus loss, Stop and UnbindShortcut take ids out of the active set
\* and invoke no callback of a binding; an End is delivered only for an id
\* that was in the active set when the event began, an id enters the active
\* set only together with a Begin, and an event delivers at most one callback
\* per id.  So a fireOnEnd binding whose id was removed that way gets no End
\* for that activation, then or later: the next callback for its id is a
\* Begin.
C27_RemovalDeliversNoEnd ==
    [][LET log == calls'
           shortcutCalls(id, phase) ==
               {i \in 1..Len(log) : /\ log[i].input.type = "Keyboard"
                                    /\ log[i].input.state = phase
                                    /\ log[i].input.keyCode = id}
           ids == {shortcuts[i].id : i \in 1..Len(shortcuts)}
       IN /\ lastOp'.op = "blur" =>
                 /\ activeShortcuts' = {}
                 /\ \A id \in ids : shortcutCalls(id, "Begin") \cup shortcutCalls(id, "End") = {}
          /\ (lastOp'.op = "Stop" /\ lastOp'.was) =>
                 /\ activeShortcuts' = {}
                 /\ log = << >>
          /\ (lastOp'.op = "UnbindShortcut"
                 /\ normalizeShortcutKeys(lastOp'.keys) # << >>) =>
                 /\ activeShortcuts'
                       = activeShortcuts \ {join(normalizeShortcutKeys(lastOp'.keys), <<"+">>)}
                 /\ log = << >>
          /\ \A id \in ids :
                 /\ shortcutCalls(id, "End") # {} => id \in activeShortcuts
                 /\ id \in activeShortcuts' \ activeShortcuts
                       => shortcutCalls(id, "Begin") # {}
                 /\ Cardinality(shortcutCalls(id, "Begin") \cup shortcutCalls(id, "End")) <= 1]_vars

\* C27 witness: a fireOnEnd binding that was active with its keys held when
\* focus was lost has now, on a key-down, received its next callback, a Begin
C27_Witness ==
    /\ lastOp.op = "keydown"
    /\ \E b \in Bindings :
          /\ b.options.fireOnEnd
          /\ b.id \in refired
          /\ calls = <<[callback |-> b.callback,
                        input |-> [type |-> "Keyboard", state |-> "Begin", keyCode |-> b.id],
                        gpe |-> isGameProcessedEvent(lastOp.e)]>>

====
